---- MODULE Spec2Model ----
(***************************************************************************)
(* Model of utils/web_capture.py: WebCapture.capture_full_page_screenshot, *)
(* the native full-page attempt and the scroll-and-stitch fallback, the    *)
(* other methods of WebCapture, the capture part of main in index.py, and  *)
(* of its analysis part the linking of detected texts to DOM images        *)
(* (utils/dom_extractor.py, models/text_detector_dl.py) and the score.     *)
(*                                                                         *)
(* The browser driver is the environment.  What it answers (inner window   *)
(* size, document height, achieved scroll offset, screenshot size, and     *)
(* whether a call raises) is chosen nondeterministically from bounded      *)
(* sets.  An image is modelled by its size and by the page row each of its *)
(* rows shows: a viewport screenshot taken at scroll offset o shows page   *)
(* rows o, o+1, ... from its top row downwards.                            *)
(***************************************************************************)
EXTENDS Integers, Sequences, FiniteSets

\* ---------------------------------------------------------------- bounds
MaxVH == 3          \* inner window heights 1..MaxVH
MaxSections == 3    \* document heights 0..MaxSections * viewport height
MaxVW == 1          \* inner window widths 1..MaxVW
MaxCap == 3         \* max_scroll arguments -1..MaxCap, and None
MaxCalls == 3       \* method calls a client makes on one WebCapture
MaxRunTotal == 3    \* document heights 0..MaxRunTotal in a run of main

Min(a, b) == IF a <= b THEN a ELSE b
Max(a, b) == IF a >= b THEN a ELSE b

\* max_scroll is None (the empty sequence) or an integer m (<<m>>)
None == <<>>
MaxScrollArgs == {None} \cup {<<m>> : m \in (-1)..MaxCap}

\* <<innerWidth, innerHeight, document height>> the driver may report: a
\* small grid, and the page of 2000 rows seen through a viewport of 800
Geometries ==
    {<<w, h, t>> : w \in 1..MaxVW, h \in 1..MaxVH, t \in 0..(MaxSections * MaxVH)}
    \cup {<<w, 800, 2000>> : w \in 1..MaxVW}

PageGeometries == {g \in Geometries : g[3] <= MaxSections * g[2]}

VARIABLES
    pc,               \* position in capture_full_page_screenshot
    max_scroll,       \* the max_scroll argument
    window_size,      \* the browser window, as last set through the driver
    doc_height,       \* the document's scroll height
    viewport_width,   \* local viewport_width
    viewport_height,  \* local viewport_height
    total_height,     \* local total_height
    scroll_steps,     \* local scroll_steps
    i,                \* loop variable of the capture loop
    last_height,      \* local last_height
    offsets,          \* window.pageYOffset as read in each iteration so far
    screenshots,      \* local screenshots: [width, height, top]
    pastes,           \* the paste calls made on combined_image, in order
    result,           \* what the call returned
    ops,              \* the driver calls issued so far: [op, err]
    session,          \* the browser session: "none", "open", "released"
    has_driver,       \* hasattr(self, 'driver')
    opc,              \* position of the caller (main, or a client)
    full_page_analysis, \* main's full_page_analysis checkbox
    url,              \* main's url
    calls,            \* the WebCapture methods called so far: [method, url]
    screenshot,       \* main's screenshot
    html_content,     \* main's html_content
    error_shown,      \* st.error("No se pudo capturar la pagina") was shown
    analysed,         \* the image the detectors and the score ran on
    report,           \* the report: "none", "full page", "initial view"
    apc,              \* position in the analysis part of main
    html_page,        \* the page html_content holds: None or <<its elements>>
    dom_images,       \* main's dom_images
    text_in_images,   \* main's text_in_images
    text_issues,      \* main's text_issues
    contrast_issues,  \* len(contrast_issues)
    colorblind_issues, \* len of colorblind_issues, per type of colour blindness
    score             \* main's score

capture_vars == <<pc, max_scroll, window_size, doc_height, viewport_width,
                  viewport_height, total_height, scroll_steps, i, last_height,
                  offsets, screenshots, pastes, result>>

session_vars == <<session, has_driver>>

analysis_vars == <<apc, html_page, dom_images, text_in_images, text_issues,
                   contrast_issues, colorblind_issues, score>>

main_vars == <<opc, full_page_analysis, url, calls, screenshot, html_content,
               error_shown, analysed, report, analysis_vars>>

vars == <<capture_vars, ops, session_vars, main_vars>>

Pending == [kind |-> "pending", via |-> "", width |-> 0, height |-> 0]
Failure(via) == [kind |-> "None", via |-> via, width |-> 0, height |-> 0]
ImageResult(via, w, h) == [kind |-> "image", via |-> via, width |-> w, height |-> h]

\* ------------------------------------------------ the environment (driver)

\* a driver call that returned, and one that raised err
Op(name) == [op |-> name, err |-> "ok"]
Raised(name, err) == [op |-> name, err |-> err]

\* what a driver call may raise: WebDriverException or its subclass
\* TimeoutException
DriverErrors == {"WebDriverException", "TimeoutException"}

\* the calls of names[1..k], the last of which raises err
FailAt(names, k, err) ==
    [j \in 1..k |-> IF j < k THEN Op(names[j]) ELSE Raised(names[j], err)]

\* the calls of all of names, none of which raises
AllOk(names) == [j \in 1..Len(names) |-> Op(names[j])]

\* the URLs main may be given
Urls == {"a", "b"}

\* where a browser that clamps to the scrollable range ends after scrollTo(0, y)
StdClamp(y) == Max(0, Min(y, total_height - viewport_height))

\* the offsets window.pageYOffset may report after scrollTo(0, scroll_to):
\* the requested one, the clamped one, no movement at all, or the top
AchievedOffsets(scroll_to) == {scroll_to, StdClamp(scroll_to), last_height, 0}

\* the sizes a viewport screenshot may have
ShotSizes ==
    {<<viewport_width, h>> : h \in {viewport_height, viewport_height + 1}}
    \cup {<<viewport_width + 1, viewport_height>>}
    \cup {<<viewport_width, h>> : h \in {viewport_height - 1} \ {0}}

\* ----------------------------------------------------- the code's arithmetic

\* scroll_steps = (total_height // viewport_height) + 1
ScrollSteps(total, vh) == (total \div vh) + 1

\* a planning step that forgets the max_scroll argument
ClampSteps_Ignored(steps, cap) == steps

\* a planning step that takes max_scroll = 0 as a cap of no steps
ClampSteps_ZeroIsCap(steps, cap) ==
    IF cap # None /\ steps > cap[1] THEN cap[1] ELSE steps

\* if max_scroll and scroll_steps > max_scroll: scroll_steps = max_scroll
ClampSteps(steps, cap) ==
    IF cap # None /\ cap[1] # 0 /\ steps > cap[1] THEN cap[1] ELSE steps

\* an end-of-page test without the i > 0 guard
ReachedEnd_NoFirstGuard(current_height, last, step) == current_height = last

\* an end-of-page test that only starts at the third step
ReachedEnd_LateGuard(current_height, last, step) == current_height = last /\ step > 1

\* if current_height == last_height and i > 0: break
ReachedEnd(current_height, last, step) == current_height = last /\ step > 0

\* a canvas as tall as all the sections together
FinalHeight_NoMin(total, vh, shots) == vh * Len(shots)

\* a canvas as tall as the larger of the two heights
FinalHeight_Max(total, vh, shots) == Max(total, vh * Len(shots))

\* final_height = min(total_height, viewport_height * len(screenshots))
FinalHeight(total, vh, shots) == Min(total, vh * Len(shots))

\* a canvas as wide as the widest section
FinalWidth_Widest(shots) ==
    CHOOSE w \in {shots[k].width : k \in 1..Len(shots)} :
        \A k \in 1..Len(shots) : shots[k].width <= w

\* final_width = screenshots[0].width
FinalWidth(shots) == shots[1].width

\* a paste that does not crop the section
PasteHeight_NoCrop(img_height, final_height, y_offset) == img_height

\* paste_height = min(img.height, final_height - y_offset)
PasteHeight(img_height, final_height, y_offset) ==
    Min(img_height, final_height - y_offset)

\* a paste offset that falls one row short for every section above it
YOffset_Overlapping(k, vh) == k * vh - k

\* y_offset = i * viewport_height
YOffset(k, vh) == k * vh

\* a paste loop without the y_offset test
Pasted_Always(y_offset, final_height) == TRUE

\* if y_offset < final_height
Pasted(y_offset, final_height) == y_offset < final_height

\* the paste loop over enumerate(screenshots): section k (from 0) goes to
\* y_offset, cropped to paste_height rows
PasteCalls(shots, vh, final_height) ==
    LET call(k) ==
            [section |-> k - 1,
             y       |-> YOffset(k - 1, vh),
             rows    |-> PasteHeight(shots[k].height, final_height, YOffset(k - 1, vh)),
             width   |-> shots[k].width,
             top     |-> shots[k].top]
        all == [k \in 1..Len(shots) |-> call(k)]
    IN  SelectSeq(all, LAMBDA c : Pasted(c.y, final_height))

\* a combine step that returns an empty canvas when nothing was captured
CombinedResult_EmptyImage(shots, total, vh) ==
    IF shots # <<>>
    THEN ImageResult("combined", shots[1].width, Min(total, vh * Len(shots)))
    ELSE ImageResult("combined", 0, 0)

\* if screenshots: ... return combined_image / else: return None
CombinedResult(shots, total, vh) ==
    IF shots # <<>>
    THEN ImageResult("combined", FinalWidth(shots), FinalHeight(total, vh, shots))
    ELSE Failure("no_sections")

\* ------------------------------------------------------------------- Init

\* the types of colour blindness main analyses
ColorblindTypes == {"protanopia", "deuteranopia", "tritanopia"}

\* the analysis part of main has not begun
AnalysisOff ==
    /\ apc = "off"
    /\ html_page = None
    /\ dom_images = <<>>
    /\ text_in_images = <<>>
    /\ text_issues = <<>>
    /\ contrast_issues = 0
    /\ colorblind_issues = [t \in ColorblindTypes |-> 0]
    /\ score = -1

\* nothing of main has happened
MainIdle ==
    /\ AnalysisOff
    /\ full_page_analysis = FALSE
    /\ url = "a"
    /\ calls = <<>>
    /\ screenshot = Pending
    /\ html_content = "unset"
    /\ error_shown = FALSE
    /\ analysed = Pending
    /\ report = "none"

\* no call of capture_full_page_screenshot has begun
LocalsUnset ==
    /\ viewport_width = 0
    /\ viewport_height = 0
    /\ total_height = 0
    /\ scroll_steps = 0
    /\ i = 0
    /\ last_height = 0
    /\ offsets = <<>>
    /\ screenshots = <<>>
    /\ pastes = <<>>
    /\ result = Pending

\* capture_full_page_screenshot(url, max_scroll=...) is entered on an open
\* session
Init ==
    /\ pc = "get"
    /\ max_scroll \in MaxScrollArgs
    /\ \E g \in PageGeometries :
          /\ window_size = <<g[1], g[2]>>
          /\ doc_height = g[3]
    /\ LocalsUnset
    /\ ops = <<>>
    /\ session = "open"
    /\ has_driver = TRUE
    /\ opc = "api"
    /\ MainIdle

\* ---------------------------------------------------------------- actions

\* a call that raises where it should return None
Return_Raises(r) ==
    IF r.kind = "None"
    THEN pc' = "raised" /\ result' = result
    ELSE pc' = "done" /\ result' = r

\* return r
Return(r) ==
    /\ pc' = "done"
    /\ result' = r

\* except TimeoutException: return None / except Exception: return None
OuterVia(err) == IF err = "TimeoutException" THEN "timeout" ELSE "error"

\* an inner handler that only expects the missing method
CaughtByNative_OnlyAttributeError(err) == err = "AttributeError"

\* except (AttributeError, WebDriverException)
CaughtByNative(err) == err = "AttributeError" \/ err \in DriverErrors

\* the ways the native block may raise: the failing call and what it raises
\* (Image.open is no driver call)
NativeFailures ==
    {<<"set_window_size", e>> : e \in DriverErrors}
    \cup {<<"get_full_page_screenshot_as_png", e>> :
             e \in DriverErrors \cup {"AttributeError"}}
    \cup {<<"Image.open", "Exception">>}

\* the driver calls of the native block up to the failure f
NativeOps(f) ==
    IF f[1] = "set_window_size" THEN <<Raised(f[1], f[2])>>
    ELSE IF f[1] = "get_full_page_screenshot_as_png"
         THEN <<Op("set_window_size"), Raised(f[1], f[2])>>
         ELSE <<Op("set_window_size"), Op("get_full_page_screenshot_as_png")>>

MeasureOps == <<"innerWidth", "innerHeight", "scrollHeight">>

\* self.driver.get(url); time.sleep(3)
Navigate ==
    /\ pc = "get"
    /\ pc' = "measure"
    /\ ops' = Append(ops, Op("get"))
    /\ UNCHANGED <<max_scroll, window_size, doc_height, viewport_width,
                   viewport_height, total_height, scroll_steps, i, last_height,
                   offsets, screenshots, pastes, result>>
    /\ UNCHANGED <<session_vars, main_vars>>

\* a navigation whose timeout is logged and the call goes on
NavigateTimeout_Swallowed ==
    /\ pc = "get"
    /\ pc' = "measure"
    /\ ops' = Append(ops, Raised("get", "TimeoutException"))
    /\ UNCHANGED <<max_scroll, window_size, doc_height, viewport_width,
                   viewport_height, total_height, scroll_steps, i, last_height,
                   offsets, screenshots, pastes, result>>
    /\ UNCHANGED <<session_vars, main_vars>>

\* driver.get raises TimeoutException
NavigateTimeout ==
    /\ pc = "get"
    /\ Return(Failure("timeout"))
    /\ ops' = Append(ops, Raised("get", "TimeoutException"))
    /\ UNCHANGED <<max_scroll, window_size, doc_height, viewport_width,
                   viewport_height, total_height, scroll_steps, i, last_height,
                   offsets, screenshots, pastes>>
    /\ UNCHANGED <<session_vars, main_vars>>

\* a driver call outside the native block raises: the outer handlers
DriverError ==
    /\ \E err \in DriverErrors :
          /\ \/ /\ pc = "get"
                /\ err = "WebDriverException"
                /\ ops' = Append(ops, Raised("get", err))
                /\ UNCHANGED offsets
             \/ /\ pc = "measure"
                /\ \E k \in 1..Len(MeasureOps) : ops' = ops \o FailAt(MeasureOps, k, err)
                /\ UNCHANGED offsets
             \/ /\ pc = "restore"
                /\ ops' = Append(ops, Raised("set_window_size", err))
                /\ UNCHANGED offsets
             \/ /\ pc = "scroll"
                /\ \E k \in 1..2 : ops' = ops \o FailAt(<<"scrollTo", "pageYOffset">>, k, err)
                /\ UNCHANGED offsets
             \/ /\ pc = "scroll"
                /\ \E current_height \in AchievedOffsets(i * viewport_height) :
                      /\ ~ReachedEnd(current_height, last_height, i)
                      /\ offsets' = Append(offsets, current_height)
                /\ ops' = ops \o FailAt(<<"scrollTo", "pageYOffset", "screenshot">>, 3, err)
          /\ Return(Failure(OuterVia(err)))
    /\ UNCHANGED <<max_scroll, window_size, doc_height, viewport_width,
                   viewport_height, total_height, scroll_steps, i, last_height,
                   screenshots, pastes>>
    /\ UNCHANGED <<session_vars, main_vars>>

\* the native block raises something its handler does not catch: the outer
\* handlers return None
NativeError ==
    /\ pc = "native"
    /\ \E f \in NativeFailures :
          /\ ~CaughtByNative(f[2])
          /\ ops' = ops \o NativeOps(f)
          /\ window_size' = IF f[1] = "set_window_size" THEN window_size
                            ELSE <<viewport_width, total_height>>
          /\ Return(Failure(OuterVia(f[2])))
    /\ UNCHANGED <<max_scroll, doc_height, viewport_width, viewport_height,
                   total_height, scroll_steps, i, last_height, offsets,
                   screenshots, pastes>>
    /\ UNCHANGED <<session_vars, main_vars>>

\* viewport_width, viewport_height, total_height = execute_script(...)
Measure ==
    /\ pc = "measure"
    /\ viewport_width' = window_size[1]
    /\ viewport_height' = window_size[2]
    /\ total_height' = doc_height
    /\ pc' = "native"
    /\ ops' = ops \o AllOk(MeasureOps)
    /\ UNCHANGED <<max_scroll, window_size, doc_height, scroll_steps, i,
                   last_height, offsets, screenshots, pastes, result>>
    /\ UNCHANGED <<session_vars, main_vars>>

\* a native capture that hands its image over and falls into the fallback
NativeCapture_NoReturn ==
    /\ pc = "native"
    /\ window_size' = <<viewport_width, total_height>>
    /\ ops' = ops \o <<Op("set_window_size"), Op("get_full_page_screenshot_as_png")>>
    /\ pc' = "restore"
    /\ result' = ImageResult("native", viewport_width, total_height)
    /\ UNCHANGED <<max_scroll, doc_height, viewport_width, viewport_height,
                   total_height, scroll_steps, i, last_height, offsets,
                   screenshots, pastes>>
    /\ UNCHANGED <<session_vars, main_vars>>

\* set_window_size(viewport_width, total_height);
\* get_full_page_screenshot_as_png() succeeds: return full_image
NativeCapture ==
    /\ pc = "native"
    /\ window_size' = <<viewport_width, total_height>>
    /\ ops' = ops \o <<Op("set_window_size"), Op("get_full_page_screenshot_as_png")>>
    /\ Return(ImageResult("native", viewport_width, total_height))
    /\ UNCHANGED <<max_scroll, doc_height, viewport_width, viewport_height,
                   total_height, scroll_steps, i, last_height, offsets,
                   screenshots, pastes>>
    /\ UNCHANGED <<session_vars, main_vars>>

\* except (AttributeError, WebDriverException): the resize itself raised
\* (window unchanged) or the native screenshot is missing or raised
NativeUnavailable ==
    /\ pc = "native"
    /\ \E f \in NativeFailures :
          /\ CaughtByNative(f[2])
          /\ ops' = ops \o NativeOps(f)
          /\ window_size' = IF f[1] = "set_window_size" THEN window_size
                            ELSE <<viewport_width, total_height>>
    /\ pc' = "restore"
    /\ UNCHANGED <<max_scroll, doc_height, viewport_width, viewport_height,
                   total_height, scroll_steps, i, last_height, offsets,
                   screenshots, pastes, result>>
    /\ UNCHANGED <<session_vars, main_vars>>

\* a fallback that measures the document again before planning its steps
Plan_Remeasures ==
    /\ pc = "restore"
    /\ window_size' = <<viewport_width, viewport_height>>
    /\ ops' = ops \o <<Op("set_window_size"), Op("scrollHeight")>>
    /\ total_height' = doc_height
    /\ scroll_steps' = ClampSteps(ScrollSteps(doc_height, viewport_height), max_scroll)
    /\ screenshots' = <<>>
    /\ last_height' = 0
    /\ i' = 0
    /\ pc' = IF 0 < scroll_steps' THEN "scroll" ELSE "combine"
    /\ UNCHANGED <<max_scroll, doc_height, viewport_width, viewport_height,
                   offsets, pastes, result>>
    /\ UNCHANGED <<session_vars, main_vars>>

\* set_window_size(viewport_width, viewport_height); scroll_steps = ...;
\* screenshots = []; last_height = 0
Plan ==
    /\ pc = "restore"
    /\ window_size' = <<viewport_width, viewport_height>>
    /\ ops' = Append(ops, Op("set_window_size"))
    /\ scroll_steps' = ClampSteps(ScrollSteps(total_height, viewport_height), max_scroll)
    /\ screenshots' = <<>>
    /\ last_height' = 0
    /\ i' = 0
    /\ pc' = IF 0 < scroll_steps' THEN "scroll" ELSE "combine"
    /\ UNCHANGED <<max_scroll, doc_height, viewport_width, viewport_height,
                   total_height, offsets, pastes, result>>
    /\ UNCHANGED <<session_vars, main_vars>>

\* one iteration of for i in range(scroll_steps) that ends in break
ScrollBreak ==
    /\ pc = "scroll"
    /\ \E current_height \in AchievedOffsets(i * viewport_height) :
          /\ ReachedEnd(current_height, last_height, i)
          /\ offsets' = Append(offsets, current_height)
    /\ ops' = ops \o <<Op("scrollTo"), Op("pageYOffset")>>
    /\ pc' = "combine"
    /\ UNCHANGED <<max_scroll, window_size, doc_height, viewport_width,
                   viewport_height, total_height, scroll_steps, i, last_height,
                   screenshots, pastes, result>>
    /\ UNCHANGED <<session_vars, main_vars>>

\* one iteration of for i in range(scroll_steps) that captures a section
ScrollCapture ==
    /\ pc = "scroll"
    /\ \E current_height \in AchievedOffsets(i * viewport_height) :
          /\ ~ReachedEnd(current_height, last_height, i)
          /\ offsets' = Append(offsets, current_height)
          /\ last_height' = current_height
          /\ \E size \in ShotSizes :
                screenshots' = Append(screenshots,
                    [width |-> size[1], height |-> size[2], top |-> current_height])
    /\ ops' = ops \o <<Op("scrollTo"), Op("pageYOffset"), Op("screenshot")>>
    /\ i' = i + 1
    /\ pc' = IF i + 1 < scroll_steps THEN "scroll" ELSE "combine"
    /\ UNCHANGED <<max_scroll, window_size, doc_height, viewport_width,
                   viewport_height, total_height, scroll_steps, pastes, result>>
    /\ UNCHANGED <<session_vars, main_vars>>

\* if screenshots: build combined_image, paste, return it; else return None
Combine ==
    /\ pc = "combine"
    /\ pastes' = IF screenshots # <<>>
                 THEN PasteCalls(screenshots, viewport_height,
                                 FinalHeight(total_height, viewport_height, screenshots))
                 ELSE <<>>
    /\ Return(CombinedResult(screenshots, total_height, viewport_height))
    /\ UNCHANGED <<max_scroll, window_size, doc_height, viewport_width,
                   viewport_height, total_height, scroll_steps, i, last_height,
                   offsets, screenshots>>
    /\ UNCHANGED <<ops, session_vars, main_vars>>

Next ==
    \/ Navigate
    \/ NavigateTimeout
    \/ DriverError
    \/ NativeCapture
    \/ NativeError
    \/ Measure
    \/ NativeUnavailable
    \/ Plan
    \/ ScrollBreak
    \/ ScrollCapture
    \/ Combine

Spec == Init /\ [][Next]_vars

\* ------------------------------------- a page whose content loads lazily

\* capture_full_page_screenshot(url, max_scroll=...) is entered on a page
\* that may still grow
LazyInit ==
    /\ pc = "get"
    /\ max_scroll \in {None} \cup {<<m>> : m \in 1..MaxCap}
    /\ \E g \in PageGeometries :
          /\ g[2] = 2 /\ g[3] <= MaxRunTotal
          /\ window_size = <<g[1], g[2]>>
          /\ doc_height = g[3]
    /\ LocalsUnset
    /\ ops = <<>>
    /\ session = "open"
    /\ has_driver = TRUE
    /\ opc = "api"
    /\ MainIdle

\* lazily loaded content mounts while the call runs: the document grows
PageGrows ==
    /\ pc \notin {"idle", "done"}
    /\ doc_height <= MaxRunTotal
    /\ doc_height' = doc_height + 1
    /\ UNCHANGED <<pc, max_scroll, window_size, viewport_width, viewport_height,
                   total_height, scroll_steps, i, last_height, offsets,
                   screenshots, pastes, result>>
    /\ UNCHANGED <<ops, session_vars, main_vars>>

LazyNext ==
    \/ PageGrows
    \/ Navigate
    \/ NavigateTimeout
    \/ DriverError
    \/ NativeCapture
    \/ NativeError
    \/ Measure
    \/ NativeUnavailable
    \/ Plan
    \/ ScrollBreak
    \/ ScrollCapture
    \/ Combine

LazySpec == LazyInit /\ [][LazyNext]_vars

\* ------------------------------------------- the other WebCapture methods

\* the driver calls of capture_screenshot, in order
ScreenshotOps == <<"get", "innerWidth", "innerHeight", "set_window_size", "screenshot">>

\* a get_page_source that reads the source at the bottom of the page
PageSourceOps_NoReturnToTop == <<"get", "scrollToBottom", "page_source">>

\* the driver calls of get_page_source, in order
PageSourceOps == <<"get", "scrollToBottom", "scrollToTop", "page_source">>

\* the driver calls that scroll the document
ScrollOps == {"scrollTo", "scrollToBottom", "scrollToTop"}

\* setup_driver: webdriver.Chrome(...) and set_page_load_timeout(...); it
\* ends "ok", or raises with no driver made ("no_driver") or with the driver
\* made and assigned but not configured ("not_configured")
SetupOutcomes == {"ok", "no_driver", "not_configured"}

SetupOps(outcome) ==
    IF outcome = "ok" THEN <<Op("Chrome"), Op("set_page_load_timeout")>>
    ELSE IF outcome = "no_driver" THEN <<Raised("Chrome", "WebDriverException")>>
    ELSE <<Op("Chrome"), Raised("set_page_load_timeout", "WebDriverException")>>

\* a setup_driver that logs the error and returns
SetupRaises_Swallowed(outcome) == FALSE

\* except Exception as e: logging.error(...); raise
SetupRaises(outcome) == outcome # "ok"

\* WebCapture(timeout): __init__ calls setup_driver
Construct(outcome) ==
    /\ session = "none"
    /\ ~has_driver
    /\ ops' = ops \o SetupOps(outcome)
    /\ session' = IF outcome = "no_driver" THEN "none" ELSE "open"
    /\ has_driver' = (outcome # "no_driver")

\* what the driver calls named by names do on this instance: without a
\* driver attribute the first of them raises AttributeError before any call
\* is issued, on a released session the first call raises, and on an open
\* one any call may raise; <<calls logged, all returned>>
Attempts(names) ==
    IF ~has_driver THEN {<<<<>>, FALSE>>}
    ELSE IF session # "open" THEN {<<FailAt(names, 1, "WebDriverException"), FALSE>>}
    ELSE {<<AllOk(names), TRUE>>}
         \cup {<<FailAt(names, k, e), FALSE>> : k \in 1..Len(names), e \in DriverErrors}

\* capture_screenshot(u): the image of the window, or None after any
\* exception (Image.open included)
CaptureScreenshot(u) ==
    /\ calls' = Append(calls, [method |-> "capture_screenshot", url |-> u])
    /\ \E a \in Attempts(ScreenshotOps) :
          /\ ops' = ops \o a[1]
          /\ \/ /\ a[2]
                /\ screenshot' = ImageResult("standard", window_size[1], window_size[2])
             \/ screenshot' = Failure("error")
    /\ UNCHANGED <<capture_vars, session_vars>>

\* get_page_source(u): the HTML, or None after any exception
GetPageSource(u) ==
    /\ calls' = Append(calls, [method |-> "get_page_source", url |-> u])
    /\ \E a \in Attempts(PageSourceOps) :
          /\ ops' = ops \o a[1]
          /\ html_content' = IF a[2] THEN "html" ELSE "None"
    /\ UNCHANGED <<capture_vars, session_vars>>

\* close(): if hasattr(self, 'driver'): self.driver.quit()
Close ==
    /\ calls' = Append(calls, [method |-> "close", url |-> ""])
    /\ IF has_driver
       THEN /\ ops' = Append(ops, Op("quit"))
            /\ session' = "released"
       ELSE UNCHANGED <<ops, session>>
    /\ UNCHANGED <<capture_vars, has_driver>>

\* ------------------------------------------------- main (index.py), capture

\* the slider of main: st.slider(..., 1, 20, 10)
SliderMin == 1
SliderMax == 20

\* the max_scroll values the slider gives, as far as the model goes
SliderArgs == {<<m>> : m \in SliderMin..Min(SliderMax, MaxCap)}

\* the pages a run of main visits
RunGeometries == {g \in PageGeometries : g[2] = 2 /\ g[3] <= MaxRunTotal}

\* a fallback taken after every full-page capture
NeedsFallback_Always(shot) == TRUE

\* if screenshot is None: (after capture_full_page_screenshot)
NeedsFallback(shot) == shot.kind = "None"

\* a check that lets a missing screenshot through
CaptureFailed_Never(shot) == FALSE

\* if screenshot is None: st.error(...); return
CaptureFailed(shot) == shot.kind = "None"

\* a main that forgets web_capture.close()
MainAfter_NoClose(position) ==
    IF position = "capture" THEN "source" ELSE "check"

\* the statements of main after the capture: get_page_source, close, the
\* check of screenshot
MainAfter(position) ==
    IF position = "capture" THEN "source"
    ELSE IF position = "source" THEN "close"
    ELSE "check"

\* the label generate_html_report prints for is_full_page
ReportLabel(is_full_page) == IF is_full_page THEN "full page" ELSE "initial view"

MainInit ==
    /\ pc = "idle"
    /\ max_scroll \in SliderArgs
    /\ \E g \in RunGeometries :
          /\ window_size = <<g[1], g[2]>>
          /\ doc_height = g[3]
    /\ LocalsUnset
    /\ ops = <<>>
    /\ session = "none"
    /\ has_driver = FALSE
    /\ opc = "start"
    /\ full_page_analysis \in BOOLEAN
    /\ url \in Urls
    /\ calls = <<>>
    /\ screenshot = Pending
    /\ html_content = "unset"
    /\ error_shown = FALSE
    /\ analysed = Pending
    /\ report = "none"
    /\ AnalysisOff

\* web_capture = WebCapture(timeout=60)
MainConstruct ==
    /\ opc = "start"
    /\ \E outcome \in SetupOutcomes :
          /\ Construct(outcome)
          /\ opc' = IF SetupRaises(outcome) THEN "aborted"
                    ELSE IF full_page_analysis THEN "full" ELSE "standard"
    /\ UNCHANGED <<capture_vars, full_page_analysis, url, calls, screenshot,
                   html_content, error_shown, analysed, report>>
    /\ UNCHANGED analysis_vars

\* screenshot = web_capture.capture_full_page_screenshot(url, max_scroll=max_scroll):
\* the call is entered
MainCallFull ==
    /\ opc = "full"
    /\ pc = "idle"
    /\ pc' = "get"
    /\ calls' = Append(calls, [method |-> "capture_full_page_screenshot", url |-> url])
    /\ opc' = "in full"
    /\ UNCHANGED <<max_scroll, window_size, doc_height, viewport_width,
                   viewport_height, total_height, scroll_steps, i, last_height,
                   offsets, screenshots, pastes, result>>
    /\ UNCHANGED <<ops, session_vars, full_page_analysis, url, screenshot,
                   html_content, error_shown, analysed, report>>
    /\ UNCHANGED analysis_vars

\* the call returned; if screenshot is None: the fallback is next
MainFullReturned ==
    /\ opc = "in full"
    /\ pc = "done"
    /\ screenshot' = result
    /\ opc' = IF NeedsFallback(result) THEN "fallback" ELSE MainAfter("capture")
    /\ UNCHANGED <<capture_vars, ops, session_vars, full_page_analysis, url,
                   calls, html_content, error_shown, analysed, report>>
    /\ UNCHANGED analysis_vars

\* screenshot = web_capture.capture_screenshot(url), as the fallback
MainFallback ==
    /\ opc = "fallback"
    /\ CaptureScreenshot(url)
    /\ opc' = MainAfter("capture")
    /\ UNCHANGED <<full_page_analysis, url, html_content, error_shown,
                   analysed, report>>
    /\ UNCHANGED analysis_vars

\* screenshot = web_capture.capture_screenshot(url), the quick capture
MainStandard ==
    /\ opc = "standard"
    /\ CaptureScreenshot(url)
    /\ opc' = MainAfter("capture")
    /\ UNCHANGED <<full_page_analysis, url, html_content, error_shown,
                   analysed, report>>
    /\ UNCHANGED analysis_vars

\* html_content = web_capture.get_page_source(url)
MainPageSource ==
    /\ opc = "source"
    /\ GetPageSource(url)
    /\ opc' = MainAfter("source")
    /\ UNCHANGED <<full_page_analysis, url, screenshot, error_shown,
                   analysed, report>>
    /\ UNCHANGED analysis_vars

\* web_capture.close()
MainClose ==
    /\ opc = "close"
    /\ Close
    /\ opc' = MainAfter("close")
    /\ UNCHANGED <<full_page_analysis, url, screenshot, html_content,
                   error_shown, analysed, report>>
    /\ UNCHANGED analysis_vars

\* if screenshot is None: st.error(...); return
MainGiveUp ==
    /\ opc = "check"
    /\ CaptureFailed(screenshot)
    /\ error_shown' = TRUE
    /\ opc' = "stopped"
    /\ UNCHANGED <<capture_vars, ops, session_vars, full_page_analysis, url,
                   calls, screenshot, html_content, analysed, report>>
    /\ UNCHANGED analysis_vars

\* the detectors and the score run on screenshot, and generate_html_report
\* is called with is_full_page=full_page_analysis (what the detectors find
\* and the score are the subject of AnalysisSpec and ScoreSpec)
MainAnalyse ==
    /\ opc = "check"
    /\ ~CaptureFailed(screenshot)
    /\ analysed' = screenshot
    /\ report' = ReportLabel(full_page_analysis)
    /\ opc' = "reported"
    /\ UNCHANGED <<capture_vars, ops, session_vars, full_page_analysis, url,
                   calls, screenshot, html_content, error_shown>>
    /\ UNCHANGED analysis_vars

MainNext ==
    \/ MainConstruct
    \/ MainCallFull
    \/ MainFullReturned
    \/ MainFallback
    \/ MainStandard
    \/ MainPageSource
    \/ MainClose
    \/ MainGiveUp
    \/ MainAnalyse
    \/ Navigate
    \/ NavigateTimeout
    \/ DriverError
    \/ NativeCapture
    \/ NativeError
    \/ Measure
    \/ NativeUnavailable
    \/ Plan
    \/ ScrollBreak
    \/ ScrollCapture
    \/ Combine

MainSpec == MainInit /\ [][MainNext]_vars

\* a run of main on a page of two viewports and more, every statement of
\* which is eventually executed
RunInit ==
    /\ MainInit
    /\ url = "a"
    /\ max_scroll = <<2>>
    /\ doc_height = MaxRunTotal

RunSpec == RunInit /\ [][MainNext]_vars /\ WF_vars(MainNext)

\* ------------------------------------------------- a client of WebCapture

\* a WebCapture is made and its one-step methods are called in any order
ClientInit ==
    /\ pc = "idle"
    /\ max_scroll = None
    /\ \E g \in RunGeometries :
          /\ window_size = <<g[1], g[2]>>
          /\ doc_height = g[3]
    /\ LocalsUnset
    /\ ops = <<>>
    /\ session = "none"
    /\ has_driver = FALSE
    /\ opc = "new"
    /\ MainIdle

ClientConstruct ==
    /\ opc = "new"
    /\ \E outcome \in SetupOutcomes : Construct(outcome)
    /\ opc' = "client"
    /\ UNCHANGED <<capture_vars, full_page_analysis, url, calls, screenshot,
                   html_content, error_shown, analysed, report>>
    /\ UNCHANGED analysis_vars

ClientCaptureScreenshot ==
    /\ opc = "client"
    /\ Len(calls) < MaxCalls
    /\ CaptureScreenshot(url)
    /\ UNCHANGED <<opc, full_page_analysis, url, html_content, error_shown,
                   analysed, report>>
    /\ UNCHANGED analysis_vars

ClientGetPageSource ==
    /\ opc = "client"
    /\ Len(calls) < MaxCalls
    /\ GetPageSource(url)
    /\ UNCHANGED <<opc, full_page_analysis, url, screenshot, error_shown,
                   analysed, report>>
    /\ UNCHANGED analysis_vars

ClientClose ==
    /\ opc = "client"
    /\ Len(calls) < MaxCalls
    /\ Close
    /\ UNCHANGED <<opc, full_page_analysis, url, screenshot, html_content,
                   error_shown, analysed, report>>
    /\ UNCHANGED analysis_vars

ClientNext ==
    \/ ClientConstruct
    \/ ClientCaptureScreenshot
    \/ ClientGetPageSource
    \/ ClientClose

ClientSpec == ClientInit /\ [][ClientNext]_vars

\* ------------------------------------- main (index.py), the text issues

MaxDom == 2         \* elements with an image in the page
MaxDetections == 2  \* texts the detector finds in the screenshot

\* a text is the sequence of its characters
Texts == {<<>>, <<" ">>, <<"a">>, <<" ", "a">>}

RECURSIVE LStrip(_)
LStrip(s) == IF s # <<>> /\ s[1] = " " THEN LStrip(Tail(s)) ELSE s

RECURSIVE RStrip(_)
RStrip(s) ==
    IF s # <<>> /\ s[Len(s)] = " " THEN RStrip(SubSeq(s, 1, Len(s) - 1)) ELSE s

\* str.strip()
Strip(s) == RStrip(LStrip(s))

\* dict.get(key, default): an absent key is None, a present one <<value>>
Get(field, default) == IF field = None THEN default ELSE field[1]

SeqsUpTo(S, n) == UNION {[1..m -> S] : m \in 0..n}

\* the elements of a page that carry an image: <img> without alt, <img
\* alt="...">, and an element with a background-image
Elements ==
    {[tag |-> "img", alt |-> a] : a \in {None} \cup {<<t>> : t \in Texts}}
    \cup {[tag |-> "div", alt |-> None]}

\* what get_page_source gave main: None, or a page
Pages == {None} \cup {<<els>> : els \in SeqsUpTo(Elements, MaxDom)}

\* image_info of extract_images_info for an <img>
ImageInfo(e) ==
    [element   |-> "img",
     alt       |-> Get(e.alt, <<>>),
     has_alt   |-> e.alt # None,
     empty_alt |-> e.alt # None /\ Strip(Get(e.alt, <<>>)) = <<>>]

\* bg_info of extract_images_info for a background image
BackgroundInfo(e) ==
    [element |-> e.tag, alt |-> <<>>, has_alt |-> FALSE, empty_alt |-> FALSE]

\* extract_images_info: all_images = images + background_images
ExtractImagesInfo(els) ==
    LET imgs == SelectSeq(els, LAMBDA e : e.tag = "img")
        bgs  == SelectSeq(els, LAMBDA e : e.tag # "img")
    IN  [k \in 1..Len(imgs) |-> ImageInfo(imgs[k])]
        \o [k \in 1..Len(bgs) |-> BackgroundInfo(bgs[k])]

\* a matcher that takes the first DOM image whatever its alt
Matches_Any(img) == TRUE

\* if not img.get('has_alt', False) or img.get('empty_alt', False)
Matches(img) == ~img.has_alt \/ img.empty_alt

\* match_image_with_dom: the first such image, or None
MatchImageWithDom(image_region, imgs) ==
    LET hits == {k \in 1..Len(imgs) : Matches(imgs[k])}
    IN  IF hits = {} THEN None
        ELSE <<imgs[CHOOSE k \in hits : \A j \in hits : k <= j]>>

\* evaluate_alt_text: what it may return; the quality of a non-blank alt
\* depends on the similarity the language model computes
EvaluateAltText(detected_text, alt_text) ==
    IF Strip(alt_text) = <<>>
    THEN {[has_alt_text |-> FALSE, quality |-> "Missing"]}
    ELSE IF Strip(detected_text) = <<>>
    THEN {[has_alt_text |-> TRUE, quality |-> "Good"]}
    ELSE {[has_alt_text |-> TRUE, quality |-> q] : q \in {"Poor", "Average", "Good"}}

\* the regions a detection may have: (x, y, w, h)
Regions == {<<0, 0, 1, 1>>, <<0, 1, 1, 1>>}

\* a detection as detect_text_in_image returns it
Detections ==
    {[region |-> r, detected_text |-> <<"a">>, has_alt_text |-> FALSE,
      alt_text |-> None, alt_text_quality |-> None] : r \in Regions}

\* text_issue.update({...}) with the matched image and its evaluation
Linked(t, img, evaluation) ==
    [t EXCEPT !.has_alt_text = img.has_alt,
              !.alt_text = <<img.alt>>,
              !.alt_text_quality = <<evaluation.quality>>]

\* one iteration of for text_issue in text_in_images: what the detection
\* may be afterwards
LinkOutcomes(t, imgs) ==
    LET matched_dom_image == MatchImageWithDom(t.region, imgs)
    IN  IF matched_dom_image = None THEN {t}
        ELSE {Linked(t, matched_dom_image[1], evaluation) :
                 evaluation \in EvaluateAltText(t.detected_text,
                                                matched_dom_image[1].alt)}

\* the whole loop
RECURSIVE LinkAll(_, _)
LinkAll(ts, imgs) ==
    IF ts = <<>> THEN {<<>>}
    ELSE {<<h>> \o rest : h \in LinkOutcomes(Head(ts), imgs),
                           rest \in LinkAll(Tail(ts), imgs)}

\* if not t.get('has_alt_text', False) or
\*    t.get('alt_text_quality', 'Missing') != 'Good'
IsIssue(t) == ~t.has_alt_text \/ Get(t.alt_text_quality, "Missing") # "Good"

\* the capture part of main is over and left a screenshot
CaptureOver ==
    /\ pc = "idle"
    /\ max_scroll = None
    /\ window_size = <<1, 2>>
    /\ doc_height = 2
    /\ LocalsUnset
    /\ ops = <<>>
    /\ session = "released"
    /\ has_driver = TRUE
    /\ opc = "check"
    /\ full_page_analysis = FALSE
    /\ url = "a"
    /\ calls = <<>>
    /\ screenshot = ImageResult("standard", 1, 2)
    /\ error_shown = FALSE
    /\ analysed = Pending
    /\ report = "none"

\* main after the capture, with the page get_page_source returned
AnalysisInit ==
    /\ CaptureOver
    /\ html_page \in Pages
    /\ html_content = IF html_page = None THEN "None" ELSE "html"
    /\ apc = "extract"
    /\ dom_images = <<>>
    /\ text_in_images = <<>>
    /\ text_issues = <<>>
    /\ contrast_issues = 0
    /\ colorblind_issues = [t \in ColorblindTypes |-> 0]
    /\ score = -1

\* dom_images = []; if html_content: dom_images = extract_images_info(...)
AnalysisExtract ==
    /\ apc = "extract"
    /\ dom_images' = IF html_page # None THEN ExtractImagesInfo(html_page[1]) ELSE <<>>
    /\ apc' = "detect"
    /\ UNCHANGED <<html_page, text_in_images, text_issues, contrast_issues,
                   colorblind_issues, score>>
    /\ UNCHANGED <<capture_vars, ops, session_vars, opc, full_page_analysis, url,
                   calls, screenshot, html_content, error_shown, analysed, report>>

\* text_in_images = text_detector.detect_text_in_image(screenshot)
AnalysisDetect ==
    /\ apc = "detect"
    /\ text_in_images' \in SeqsUpTo(Detections, MaxDetections)
    /\ apc' = "link"
    /\ UNCHANGED <<html_page, dom_images, text_issues, contrast_issues,
                   colorblind_issues, score>>
    /\ UNCHANGED <<capture_vars, ops, session_vars, opc, full_page_analysis, url,
                   calls, screenshot, html_content, error_shown, analysed, report>>

\* for text_issue in text_in_images: match, evaluate, update
AnalysisLink ==
    /\ apc = "link"
    /\ text_in_images' \in LinkAll(text_in_images, dom_images)
    /\ apc' = "filter"
    /\ UNCHANGED <<html_page, dom_images, text_issues, contrast_issues,
                   colorblind_issues, score>>
    /\ UNCHANGED <<capture_vars, ops, session_vars, opc, full_page_analysis, url,
                   calls, screenshot, html_content, error_shown, analysed, report>>

\* text_issues = [t for t in text_in_images if ...]
AnalysisFilter ==
    /\ apc = "filter"
    /\ text_issues' = SelectSeq(text_in_images, IsIssue)
    /\ apc' = "filtered"
    /\ UNCHANGED <<html_page, dom_images, text_in_images, contrast_issues,
                   colorblind_issues, score>>
    /\ UNCHANGED <<capture_vars, ops, session_vars, opc, full_page_analysis, url,
                   calls, screenshot, html_content, error_shown, analysed, report>>

AnalysisNext ==
    \/ AnalysisExtract
    \/ AnalysisDetect
    \/ AnalysisLink
    \/ AnalysisFilter

AnalysisSpec == AnalysisInit /\ [][AnalysisNext]_vars

\* ------------------------------------------ main (index.py), the score

MaxContrast == 12    \* contrast issues found
MaxTextIssues == 8   \* text issues kept
MaxColorblind == 5   \* issues found for one type of colour blindness

max_score == 100
penalty_per_contrast == 3
penalty_per_text == 5
penalty_per_colorblind == 2

\* total_colorblind_issues = sum(len(issues) for issues in colorblind_issues.values())
TotalColorblindIssues(issues) ==
    issues["protanopia"] + issues["deuteranopia"] + issues["tritanopia"]

\* a score that is not floored at 0
Score_NoFloor(contrast, text, colorblind) ==
    max_score - (contrast * penalty_per_contrast) - (text * penalty_per_text)
        - (colorblind * penalty_per_colorblind)

\* score = max(0, max_score - len(contrast_issues) * penalty_per_contrast
\*                 - len(text_issues) * penalty_per_text
\*                 - total_colorblind_issues * penalty_per_colorblind)
Score(contrast, text, colorblind) ==
    Max(0, max_score - (contrast * penalty_per_contrast) - (text * penalty_per_text)
               - (colorblind * penalty_per_colorblind))

\* main after the detectors, with the issues they found
ScoreInit ==
    /\ CaptureOver
    /\ html_page = None
    /\ html_content = "None"
    /\ apc = "score"
    /\ dom_images = <<>>
    /\ \E n \in 0..MaxTextIssues, d \in Detections :
          /\ text_in_images = [k \in 1..n |-> d]
          /\ text_issues = text_in_images
          /\ d.region = <<0, 0, 1, 1>>
    /\ contrast_issues \in 0..MaxContrast
    /\ colorblind_issues \in [ColorblindTypes -> 0..MaxColorblind]
    /\ score = -1

\* score = max(0, ...)
ComputeScore ==
    /\ apc = "score"
    /\ score' = Score(contrast_issues, Len(text_issues),
                      TotalColorblindIssues(colorblind_issues))
    /\ apc' = "scored"
    /\ UNCHANGED <<html_page, dom_images, text_in_images, text_issues,
                   contrast_issues, colorblind_issues>>
    /\ UNCHANGED <<capture_vars, ops, session_vars, opc, full_page_analysis, url,
                   calls, screenshot, html_content, error_shown, analysed, report>>

ScoreNext == ComputeScore

ScoreSpec == ScoreInit /\ [][ScoreNext]_vars

\* ------------------------------------------------- vocabulary of the claims

CeilDiv(a, b) == (a + b - 1) \div b

\* the call went through the scroll-and-stitch path to its end
StitchEnded == pc = "done" /\ result.via \in {"combined", "no_sections"}

\* the call returned a stitched composite
Stitched == pc = "done" /\ result.via = "combined"

\* scroll_steps has been planned
Planned == pc \in {"scroll", "combine"} \/ StitchEnded

NoCap == max_scroll = None

\* every offset read so far is the one of a browser that clamps scrollTo
StdBrowser ==
    \A k \in 1..Len(offsets) : offsets[k] = StdClamp((k - 1) * viewport_height)

\* the browser never moved
NeverScrolled == \A k \in 1..Len(offsets) : offsets[k] = 0

\* no offset read equals the one read just before it
NoRepeat == \A k \in 2..Len(offsets) : offsets[k] # offsets[k - 1]

\* every section is as tall as the viewport
FullSections == \A k \in 1..Len(screenshots) : screenshots[k].height = viewport_height

\* the loop ended in break
BrokeOut == Len(offsets) > Len(screenshots)

\* the page row that row y of the composite shows: the one of the last
\* paste that covers y, -1 where nothing was pasted
RowContent(y) ==
    LET covering == {k \in 1..Len(pastes) :
                        pastes[k].y <= y /\ y < pastes[k].y + pastes[k].rows}
    IN  IF covering = {} THEN -1
        ELSE LET k == CHOOSE c \in covering : \A d \in covering : d <= c
             IN  pastes[k].top + (y - pastes[k].y)

\* ----------------------------------------------------------------- claims

\* C1: with max_scroll not given, a browser whose achieved offset is
\* min(requested, totalHeight - viewportHeight) and totalHeight = 3 x
\* viewportHeight, the stitch path captures exactly 3 sections and the
\* composite is totalHeight rows tall.
C1_ThreeViewports ==
    (StitchEnded /\ NoCap /\ StdBrowser /\ total_height = 3 * viewport_height)
        => /\ Len(screenshots) = 3
           /\ result.kind = "image"
           /\ result.height = total_height

C1_Witness ==
    /\ Stitched /\ NoCap /\ StdBrowser
    /\ total_height = 3 * viewport_height
    /\ Len(screenshots) = 3
    /\ BrokeOut

\* C2: the number of scroll steps planned before any max_scroll clamp is
\* ceil(totalHeight / viewportHeight) for every totalHeight >= 1, exact
\* multiples of viewportHeight included.
C2_StepsAreCeil ==
    (Planned /\ NoCap /\ total_height >= 1)
        => scroll_steps = CeilDiv(total_height, viewport_height)

\* C3: with sections that show page rows o .. o+viewportHeight-1 and no cap,
\* row y of the returned composite shows page row y, for every row y.
C3_FaithfulRows ==
    (Stitched /\ NoCap /\ StdBrowser /\ FullSections)
        => \A y \in 0..(result.height - 1) : RowContent(y) = y

\* C4: at a step i > 0 whose achieved offset equals the offset of the
\* previously captured section the loop stops: no screenshot at that step,
\* no later step, fewer sections than planned steps, and no section is
\* captured at the offset of the one before it.
C4_BreakStep ==
    (pc = "scroll" /\ i > 0 /\ Len(offsets') = Len(offsets) + 1
        /\ offsets'[Len(offsets')] = last_height)
        => (pc' = "combine" /\ screenshots' = screenshots)

C4_LoopOver ==
    (pc \in {"combine", "done"})
        => (offsets' = offsets /\ screenshots' = screenshots /\ pc' # "scroll")

C4_AfterBreak ==
    /\ BrokeOut => (Len(screenshots) < scroll_steps /\ pc # "scroll")
    /\ \A k \in 2..Len(screenshots) : screenshots[k].top # screenshots[k - 1].top
    /\ Stitched => \A k \in 2..Len(pastes) : pastes[k].top # pastes[k - 1].top

\* C4: the break step takes no screenshot, the loop never resumes, and a
\* broken-off capture has fewer sections than planned steps and no section
\* repeating the offset of the one before it.
C4_StopsWithoutDuplicate ==
    [](C4_AfterBreak) /\ [][C4_BreakStep /\ C4_LoopOver]_vars

C4_Witness ==
    /\ Stitched /\ BrokeOut
    /\ Len(screenshots) >= 2
    /\ offsets[Len(offsets)] = screenshots[Len(screenshots)].top

\* C5: a page with totalHeight <= viewportHeight on a browser that cannot
\* scroll it gives exactly 1 section and a composite totalHeight rows tall
\* (max_scroll None or >= 0).
C5_ShortPage ==
    (StitchEnded /\ total_height <= viewport_height /\ NeverScrolled
        /\ (max_scroll = None \/ max_scroll[1] >= 0))
        => /\ Len(screenshots) = 1
           /\ result.kind = "image"
           /\ result.height = total_height

C5_Witness ==
    /\ Stitched /\ NeverScrolled /\ BrokeOut
    /\ total_height = viewport_height
    /\ Len(screenshots) = 1
    /\ result.height = total_height

\* C6: every stitched result has finalHeight = min(totalHeight,
\* viewportHeight x sections captured), so finalHeight <= totalHeight.
C6_FinalHeight ==
    Stitched
        => /\ result.height = Min(total_height, viewport_height * Len(screenshots))
           /\ result.height <= total_height

C6_Witness ==
    /\ Stitched
    /\ viewport_height * Len(screenshots) > total_height
    /\ result.height = total_height
    /\ max_scroll # None
    /\ ~StdBrowser

\* C7: a cap m >= 1 gives at most m sections and a composite of at most
\* m x viewportHeight rows, and an image is still returned.
C7_Capped ==
    (max_scroll # None /\ max_scroll[1] >= 1)
        => /\ Len(screenshots) <= max_scroll[1]
           /\ StitchEnded
                => /\ result.kind = "image"
                   /\ result.height <= max_scroll[1] * viewport_height

C7_Witness ==
    /\ Stitched
    /\ max_scroll = <<2>>
    /\ total_height = 3 * viewport_height
    /\ Len(screenshots) = 2
    /\ result.height = 2 * viewport_height

\* C8: totalHeight 2000 and viewportHeight 800 without a cap plan 3 steps;
\* when no offset repeats, 3 sections are captured, the composite is 2000
\* rows tall and the third section is cropped to 400 rows and pasted at 1600.
C8_Scenario ==
    (NoCap /\ total_height = 2000 /\ viewport_height = 800)
        => /\ Planned => scroll_steps = 3
           /\ (StitchEnded /\ NoRepeat)
                => /\ Len(screenshots) = 3
                   /\ result.kind = "image"
                   /\ result.height = 2000
                   /\ Len(pastes) = 3
                   /\ pastes[3].section = 2
                   /\ pastes[3].y = 1600
                   /\ pastes[3].rows = 400

C8_Witness ==
    /\ Stitched /\ NoCap /\ NoRepeat
    /\ total_height = 2000 /\ viewport_height = 800
    /\ offsets = <<0, 800, 1600>>
    /\ pastes[3].rows = 400

\* C9: section i is pasted at i x viewportHeight cropped to min(section
\* height, finalHeight - i x viewportHeight) rows, nothing is pasted below
\* row finalHeight, and a section whose offset is >= finalHeight is not
\* pasted.
C9_Pasting ==
    Stitched =>
        \A k \in 1..Len(screenshots) :
            LET y == (k - 1) * viewport_height
                made == {c \in 1..Len(pastes) : pastes[c].section = k - 1}
            IN  IF y >= result.height
                THEN made = {}
                ELSE /\ Cardinality(made) = 1
                     /\ \A c \in made :
                           /\ pastes[c].y = y
                           /\ pastes[c].rows =
                                 Min(screenshots[k].height, result.height - y)
                           /\ pastes[c].rows >= 1
                           /\ pastes[c].y + pastes[c].rows <= result.height

C9_Witness ==
    /\ Stitched
    /\ Len(pastes) >= 1
    /\ Len(pastes) < Len(screenshots)
    /\ \E c \in 1..Len(pastes) : pastes[c].rows < screenshots[c].height

\* C10: with zero sections captured the call returns the failure signal,
\* never an image, and every stitched image comes from at least one section.
C10_EmptyStep ==
    (pc = "combine" /\ screenshots = <<>>)
        => (pc' = "done" /\ result'.kind = "None" /\ pastes' = <<>>)

\* C10: zero sections end in the failure signal None, never in an image.
C10_NoSectionsFails ==
    /\ []((StitchEnded /\ screenshots = <<>>) => result.kind = "None")
    /\ [](Stitched => Len(screenshots) >= 1)
    /\ [][C10_EmptyStep]_vars

C10_Witness ==
    /\ StitchEnded
    /\ screenshots = <<>>
    /\ result = Failure("no_sections")

\* ------------------------------------- vocabulary of the claims on callers

\* the driver calls named name that returned
Returned(name) == {k \in 1..Len(ops) : ops[k] = Op(name)}

\* the driver calls named name, returned or not
Issued(name) == {k \in 1..Len(ops) : ops[k].op = name}

\* the calls of method made so far
CallsOf(method) == {k \in 1..Len(calls) : calls[k].method = method}

\* main is past its capture attempts
PastCapture == opc \in {"source", "close", "check", "stopped", "reported"}

\* main has ended, by the return after st.error or at its end
MainEnded == opc \in {"stopped", "reported"}

\* the driver calls this step issued
NewOps == SubSeq(ops', Len(ops) + 1, Len(ops'))

\* setup_driver raised
SetupFailed ==
    \E k \in 1..Len(ops) :
        ops[k].op \in {"Chrome", "set_page_load_timeout"} /\ ops[k].err # "ok"

\* C11: when the native capture succeeds the call returns the native image
\* at once: no scrollTo, no viewport screenshot, no compositing.
C11_NativeReturnsAtOnce ==
    (result.via = "native")
        => /\ pc = "done"
           /\ result = ImageResult("native", viewport_width, total_height)
           /\ Issued("scrollTo") = {} /\ Issued("pageYOffset") = {}
           /\ Issued("screenshot") = {}
           /\ offsets = <<>> /\ screenshots = <<>> /\ pastes = <<>>
           /\ ops[Len(ops)] = Op("get_full_page_screenshot_as_png")

C11_Witness ==
    /\ pc = "done"
    /\ result.via = "native"
    /\ result.height = 2000

\* C12: a native attempt that fails for a missing capability or for any
\* driver error, a driver timeout included, is followed by the
\* scroll-and-stitch path of the same call, not by a failure return.
C12_FailedNativeStep ==
    (pc = "native" /\ Len(ops') > Len(ops)
        /\ ops'[Len(ops')].err \in DriverErrors \cup {"AttributeError"})
        => (pc' = "restore" /\ result' = Pending)

\* C12: every step in which the native attempt fails that way leads to the
\* restore of the window that opens the scroll-and-stitch path.
C12_FallsBackToStitch == [][C12_FailedNativeStep]_vars

C12_Witness ==
    /\ Stitched
    /\ \E k \in 1..Len(ops) :
          ops[k] = Raised("set_window_size", "TimeoutException")
    /\ Len(screenshots) = 2

\* C13: on every return of the call after the window was resized to the
\* full height, the window is back at the measured (viewportWidth,
\* viewportHeight).
C13_WindowRestored ==
    (pc = "done" /\ Returned("set_window_size") # {})
        => window_size = <<viewport_width, viewport_height>>

\* C14: with full-page analysis requested, a failed full-page capture is
\* followed by exactly one capture_screenshot of the same URL, which issues
\* no scroll; a full-page capture that returned an image is followed by none.
C14_FallbackCalls ==
    /\ Cardinality(CallsOf("capture_screenshot")) <= 1
    /\ (full_page_analysis /\ PastCapture)
          => /\ calls[1] = [method |-> "capture_full_page_screenshot", url |-> url]
             /\ IF result.kind = "None"
                THEN /\ CallsOf("capture_screenshot") = {2}
                     /\ calls[2].url = calls[1].url
                ELSE CallsOf("capture_screenshot") = {}

C14_ScreenshotStep ==
    (Len(calls') > Len(calls) /\ calls'[Len(calls')].method = "capture_screenshot")
        => \A k \in 1..Len(NewOps) : NewOps[k].op \notin ScrollOps

\* C14: the calls main makes are those, and the step of capture_screenshot
\* issues no scroll.
C14_SingleViewportFallback ==
    [](C14_FallbackCalls) /\ [][C14_ScreenshotStep]_vars

C14_Witness ==
    /\ opc = "reported"
    /\ full_page_analysis
    /\ result.kind = "None"
    /\ analysed.via = "standard"
    /\ CallsOf("capture_screenshot") = {2}

\* an image some capture strategy of this run returned
C15_ImageReturned ==
    \/ result.kind = "image"
    \/ CallsOf("capture_screenshot") # {} /\ screenshot.kind = "image"

\* C15: main reports that the page could not be captured, and analyses and
\* reports nothing, exactly when every capture it attempted returned None;
\* when one returned an image the analysis runs on that image.
C15_ErrorIffAllFailed ==
    /\ error_shown => (analysed = Pending /\ report = "none")
    /\ analysed # Pending => analysed.kind = "image"
    /\ MainEnded
          => /\ error_shown <=> ~C15_ImageReturned
             /\ C15_ImageReturned
                   => /\ opc = "reported"
                      /\ report # "none"
                      /\ analysed = IF result.kind = "image" THEN result ELSE screenshot

C15_Witness ==
    /\ opc = "stopped"
    /\ error_shown
    /\ full_page_analysis
    /\ CallsOf("capture_screenshot") = {2}
    /\ result.kind = "None" /\ screenshot.kind = "None"

\* C16: any number of close() calls release the session once, the later
\* ones not acting on the released session, and close() without a driver
\* does nothing.
C16_ReleasedOnce ==
    /\ Cardinality(Issued("quit")) <= 1
    /\ ~has_driver => (Issued("quit") = {} /\ session = "none")

\* C17: a run of main that made its WebCapture calls close() exactly once,
\* after its last driver call and whatever the captures returned; no
\* driver call follows close().
C17_ClosedOnceAtEnd ==
    /\ Cardinality(CallsOf("close")) <= 1
    /\ \A k \in Issued("quit") : k = Len(ops)
    /\ \A k \in CallsOf("close") : k = Len(calls)
    /\ MainEnded
          => /\ Cardinality(CallsOf("close")) = 1
             /\ Cardinality(Issued("quit")) = 1
             /\ session = "released"
             /\ CallsOf("get_page_source") # {}

C17_Witness ==
    /\ opc = "stopped"
    /\ error_shown
    /\ ops[Len(ops)] = Op("quit")
    /\ calls[Len(calls)].method = "close"
    /\ html_content = "None"

\* C18: a navigation that fails or times out in capture_full_page_screenshot
\* makes the call return None with no screenshot, resize or scroll.
C18_NavigationFailure ==
    (ops # <<>> /\ ops[1].op = "get" /\ ops[1].err # "ok")
        => /\ pc = "done"
           /\ result.kind = "None"
           /\ Len(ops) = 1
           /\ screenshots = <<>> /\ offsets = <<>> /\ pastes = <<>>
           /\ viewport_height = 0

C18_Witness ==
    /\ pc = "done"
    /\ ops = <<Raised("get", "TimeoutException")>>
    /\ result = Failure("timeout")

\* C19: when the driver cannot be started or configured the construction
\* raises and the run ends before any navigation, screenshot or page-source
\* read.
C19_SetupFailureAborts ==
    SetupFailed
        => /\ opc = "aborted"
           /\ calls = <<>>
           /\ \A k \in 1..Len(ops) : ops[k].op \in {"Chrome", "set_page_load_timeout"}
           /\ pc = "idle"
           /\ screenshot = Pending /\ html_content = "unset"
           /\ analysed = Pending /\ report = "none"

C19_Witness ==
    /\ opc = "aborted"
    /\ ops = <<Raised("Chrome", "WebDriverException")>>
    /\ ~has_driver

\* C20: the report is labelled full page exactly when the analysed image
\* came from capture_full_page_screenshot, and partial when the
\* single-viewport fallback produced it.
C20_LabelTellsTheCapture ==
    (opc = "reported")
        => (report = "full page" <=> analysed.via \in {"native", "combined"})

\* C21: the composite is as wide as the first captured section, whatever
\* the widths of the later sections, which change neither its width nor its
\* height.
C21_CanvasWidth ==
    Stitched
        => /\ result.width = screenshots[1].width
           /\ result.height = Min(total_height, viewport_height * Len(screenshots))

C21_Witness ==
    /\ Stitched
    /\ Len(screenshots) >= 2
    /\ screenshots[2].width > screenshots[1].width
    /\ result.width = screenshots[1].width

\* the step is a call of method
CallStep(method) ==
    Len(calls') = Len(calls) + 1 /\ calls'[Len(calls')].method = method

\* where the window stands after the driver calls of log: at the top after
\* a navigation or a scroll to the top, as far as the last such call tells
ScrollPosition(log) ==
    LET moves == {k \in 1..Len(log) :
                     log[k].err = "ok" /\ log[k].op \in ScrollOps \cup {"get"}}
    IN  IF moves = {} THEN "unknown"
        ELSE LET k == CHOOSE c \in moves : \A d \in moves : d <= c
             IN  IF log[k].op \in {"get", "scrollToTop"} THEN "top"
                 ELSE IF log[k].op = "scrollToBottom" THEN "bottom"
                 ELSE "scrolled"

\* navigation, one scroll to the bottom, one scroll back to the top, the read
C22_Order == <<"get", "scrollToBottom", "scrollToTop", "page_source">>

C22_PageSourceStep ==
    CallStep("get_page_source")
        => /\ html_content' \in {"html", "None"}
           /\ html_content' = "html" <=> NewOps = AllOk(C22_Order)
           /\ html_content' = "html" => ScrollPosition(ops') = "top"
           /\ html_content' = "None"
                 => /\ Len(NewOps) <= Len(C22_Order)
                    /\ \A k \in 1..Len(NewOps) :
                          /\ NewOps[k].op = C22_Order[k]
                          /\ NewOps[k].err = "ok" <=> k < Len(NewOps)

\* C22: get_page_source navigates, scrolls once to the bottom, once back to
\* the top and only then reads the source; when it returns HTML the window is
\* at the top, and when any of these steps fails it returns None, having
\* issued no step after the failed one.
C22_SourceAfterScrollCycle == [][C22_PageSourceStep]_vars

C22_Witness ==
    /\ html_content = "html"
    /\ Len(calls) = 2
    /\ calls[1].method = "capture_screenshot"
    /\ SubSeq(ops, Len(ops) - 3, Len(ops)) = AllOk(C22_Order)

\* the document height was read
HeightRead == Returned("scrollHeight") # {}

\* the calls that resize the window or scroll the document
C23_Movers == {"set_window_size"} \cup ScrollOps

C23_ReadOnce ==
    /\ Cardinality(Issued("scrollHeight")) <= 1
    /\ \A k \in Issued("scrollHeight") :
          /\ ops[1] = Op("get")
          /\ \A j \in 1..(k - 1) : ops[j].op \notin C23_Movers
    /\ (Issued("set_window_size") # {} \/ Issued("scrollTo") # {}) => HeightRead
    /\ Planned => scroll_steps =
                     ClampSteps(ScrollSteps(total_height, viewport_height), max_scroll)
    /\ Stitched => result.height = Min(total_height, viewport_height * Len(screenshots))
    /\ result.via = "native" => result.height = total_height

C23_Step ==
    /\ (pc = "measure" /\ pc' = "native") => total_height' = doc_height
    /\ pc # "measure" => total_height' = total_height
    /\ (pc = "native" /\ window_size' # window_size)
          => window_size' = <<viewport_width, total_height>>

\* C23: totalHeight is read exactly once, after the navigation and before
\* any window resize or scroll; the value read is the one the native resize,
\* the planned step count and finalHeight use, and it is not measured again
\* while the page grows during the scroll loop.
C23_MeasuredOnce == [](C23_ReadOnce) /\ [][C23_Step]_vars

C23_Witness ==
    /\ Stitched
    /\ doc_height > total_height
    /\ Len(screenshots) = 2
    /\ result.height = total_height
    /\ Cardinality(Issued("scrollHeight")) = 1

\* max_scroll is None or not negative
C24_NoNegativeCap == max_scroll = None \/ max_scroll[1] >= 0

C24_Sections ==
    /\ result.via = "no_sections" => (max_scroll # None /\ max_scroll[1] < 0)
    /\ (C24_NoNegativeCap /\ (pc = "combine" \/ StitchEnded))
          => (Len(screenshots) >= 1 /\ scroll_steps >= 1)
    /\ (StitchEnded /\ ~C24_NoNegativeCap)
          => (result.via = "no_sections" /\ offsets = <<>>)

C24_FirstStep ==
    (pc = "scroll" /\ i = 0 /\ Len(offsets') > Len(offsets))
        => \/ Len(screenshots') = 1 /\ screenshots'[1].top = offsets'[1]
           \/ pc' = "done" /\ result'.via \in {"timeout", "error"}

\* C24: with max_scroll None or >= 0 (0 meaning no cap) the first iteration
\* of the loop never breaks, so the stitch path captures at least one section
\* and never ends in "no sections captured"; it ends there only, and always,
\* with a negative max_scroll.
C24_FirstIterationCaptures == [](C24_Sections) /\ [][C24_FirstStep]_vars

C24_Witness ==
    /\ Stitched
    /\ max_scroll = <<0>>
    /\ offsets = <<0, 0>>
    /\ Len(screenshots) = 1
    /\ total_height > viewport_height

\* the driver calls of setup_driver
SetupCalls == {"Chrome", "set_page_load_timeout"}

\* this step issued a driver call of one of the three methods that raised
C25_Injected ==
    \E k \in 1..Len(NewOps) :
        NewOps[k].err # "ok" /\ NewOps[k].op \notin SetupCalls

C25_Step ==
    /\ pc' \in {"idle", "get", "measure", "native", "restore", "scroll",
                "combine", "done"}
    /\ opc # "start" => opc' # "aborted"
    /\ C25_Injected
          => \/ pc' = "done" /\ result'.kind = "None"
             \/ pc = "native" /\ pc' = "restore"
             \/ CallStep("capture_screenshot") /\ screenshot'.kind = "None"
             \/ CallStep("get_page_source") /\ html_content' = "None"

\* the construction returned
C25_Constructed == opc \notin {"start", "aborted"}

\* close() was called and released the session
C25_Closed == CallsOf("close") # {} /\ session = "released"

\* C25: a driver call that raises inside capture_full_page_screenshot,
\* capture_screenshot or get_page_source never leaves the method as an
\* exception: the method returns a result or None, and every run of main
\* whose WebCapture was constructed reaches close().
C25_NoErrorEscapes == [][C25_Step]_vars /\ (C25_Constructed ~> C25_Closed)

C25_Witness ==
    /\ C25_Closed
    /\ \E k \in 1..Len(ops) : ops[k] = Raised("pageYOffset", "WebDriverException")
    /\ \E k \in 1..Len(ops) : ops[k] = Raised("page_source", "TimeoutException")
    /\ screenshot.via = "standard"
    /\ html_content = "None"

\* the pastes that wrote row y of the composite
Writers(y) ==
    {c \in 1..Len(pastes) : pastes[c].y <= y /\ y < pastes[c].y + pastes[c].rows}

\* C26: when every captured section is exactly viewportHeight rows tall,
\* every row 0 .. finalHeight-1 of the composite is written by exactly one
\* pasted section: no row is left unpainted and none is written twice.
C26_Partition ==
    (Stitched /\ FullSections)
        => /\ \A y \in 0..(result.height - 1) : Cardinality(Writers(y)) = 1
           /\ \A c \in 1..Len(pastes) :
                 pastes[c].rows >= 1 /\ pastes[c].y + pastes[c].rows <= result.height

C26_Witness ==
    /\ Stitched /\ FullSections
    /\ Len(pastes) = 3
    /\ pastes[3].rows < viewport_height
    /\ \A y \in 0..(result.height - 1) : Cardinality(Writers(y)) = 1

\* C27: when the constructor's error has reached the caller no browser
\* session is open: a driver that was created but could not be configured
\* has been released.
C27_NoOrphanSession ==
    (opc = "aborted") => session # "open"

\* C28: the filter of text issues removes nothing: every detection ends
\* with has_alt_text false or alt_text_quality 'Missing', all linked
\* detections carry the same DOM image whatever their region, and the list
\* of text issues is the full list of detected texts.
C28_FilterKeepsAll ==
    /\ apc \in {"filter", "filtered"}
          => /\ \A k \in 1..Len(text_in_images) :
                   \/ ~text_in_images[k].has_alt_text
                   \/ Get(text_in_images[k].alt_text_quality, "Missing") = "Missing"
             /\ \A j, k \in 1..Len(text_in_images) :
                   text_in_images[j].alt_text = text_in_images[k].alt_text
    /\ apc = "filtered" => text_issues = text_in_images

C28_Witness ==
    /\ apc = "filtered"
    /\ Len(dom_images) = 2
    /\ dom_images[1].alt = <<"a">>
    /\ dom_images[2].empty_alt
    /\ Len(text_issues) = 2
    /\ text_issues[1].region # text_issues[2].region
    /\ text_issues[1].has_alt_text
    /\ text_issues[1].alt_text_quality = <<"Missing">>

\* the three issue counts of the run
C29_Counts ==
    <<contrast_issues, Len(text_issues), TotalColorblindIssues(colorblind_issues)>>

\* C29: the score is max(0, 100 - 3 x contrast issues - 5 x text issues -
\* 2 x total colour-blindness issues): an integer in 0..100, 100 exactly when
\* the three counts are 0, and not larger when one of the counts is larger
\* by one.
C29_ScoreFormula ==
    (apc = "scored")
        => LET c == C29_Counts[1]
               t == C29_Counts[2]
               b == C29_Counts[3]
               raw == 100 - 3 * c - 5 * t - 2 * b
           IN  /\ score = IF raw < 0 THEN 0 ELSE raw
               /\ score \in 0..100
               /\ score = 100 <=> (c = 0 /\ t = 0 /\ b = 0)
               /\ Score(c + 1, t, b) <= score
               /\ Score(c, t + 1, b) <= score
               /\ Score(c, t, b + 1) <= score

C29_Witness ==
    /\ apc = "scored"
    /\ score = 0
    /\ 3 * C29_Counts[1] + 5 * C29_Counts[2] + 2 * C29_Counts[3] > 100
    /\ C29_Counts[1] > 0 /\ C29_Counts[2] > 0 /\ C29_Counts[3] > 0

====
